---- MODULE Spec2Model ----
(***************************************************************************)
(* NBA-Weekly (src/app.py): the Streamlit script, its cached collector     *)
(* fetch_games and the retrying executor safe_get, as a state machine.     *)
(*                                                                         *)
(* One action is one script run up to its first HTTP GET (RunScript), or   *)
(* one HTTP GET together with everything the code does until the next GET  *)
(* or the end of the script run (GetOk, Get429, GetExc).  Tick is the wall *)
(* clock the cache's time-to-live is measured against.                     *)
(***************************************************************************)
EXTENDS Integers, Sequences, FiniteSets, TLC

(* ------------------------------ bounds -------------------------------- *)
MaxRuns == 3
MaxRows == 2
MaxReq == 3
MaxClock == 600
TickStep == 300

(* ------------------------- program constants -------------------------- *)
\* safe_get(..., retries=4, backoff=1.8): the base 1.8 is the rational 18/10
Retries == 4
BackoffNum == 18
BackoffDen == 10
\* fetch_games(..., per_page: int = 100)
PerPage == 100
\* @st.cache_data(ttl=60 * 10), in seconds
TTL == 60 * 10
\* cursor = 0, the start sentinel
StartCursor == 0
\* Python's None where the model keeps an integer (last_err, next_cursor)
None == -1
\* the missing tipoff: NaT of pd.to_datetime(..., errors="coerce") / None
NaT == -1

(* ------------------------------ inputs -------------------------------- *)
\* calendar dates the date pickers offer, as day numbers
Dates == {1, 2}
\* cursor values the upstream may name in meta.next_cursor
Cursors == {0, 1}
\* the exceptions a GET can end in: requests.get raising (timeout,
\* connection), raise_for_status (non-2xx), r.json() (malformed body)
ErrTimeout == 1
ErrHttp == 2
Errs == {ErrTimeout, ErrHttp}
\* what the attempt log writes for a 429 response and for a success
Saw429 == 429
SawOk == 200

\* raw game entries the upstream may serve: id, date, UTC datetime
Games ==
    { [id |-> 1, date |-> 2, datetime |-> 1],
      [id |-> 2, date |-> 1, datetime |-> NaT] }

\* raw game entries for the runs that exercise the sort: two dates, several
\* tipoffs on one date, entries without a datetime
MaxSort == 3
Fixtures ==
    { [id |-> 1, date |-> 2, datetime |-> 1],
      [id |-> 2, date |-> 1, datetime |-> NaT],
      [id |-> 3, date |-> 1, datetime |-> 3],
      [id |-> 4, date |-> 1, datetime |-> 2],
      [id |-> 5, date |-> 2, datetime |-> NaT] }

RECURSIVE SeqsUpTo(_, _)
SeqsUpTo(S, n) ==
    IF n = 0 THEN {<<>>}
    ELSE LET shorter == SeqsUpTo(S, n - 1)
         IN  shorter \cup {Append(s, x) : s \in shorter, x \in S}

\* the two environment variables bdl_headers reads, and what they may hold
EnvNames == {"BALLDONTLIE_API_KEY", "BALDONTLIE_API_KEY"}
EnvValues == {"", "key"}

\* memoization key of fetch_games(start, end): the call's arguments
Keys == {<<s, e, PerPage>> : s \in Dates, e \in Dates}

(* --------------------------- pure functions --------------------------- *)
RECURSIVE Pow(_, _)
Pow(b, n) == IF n = 0 THEN 1 ELSE b * Pow(b, n - 1)

\* mutant of SleepFor: a fixed delay of backoff seconds
SleepFixed(i) == [num |-> BackoffNum, den |-> BackoffDen]

\* time.sleep(backoff ** i): the duration (1.8)^i as the fraction num/den
SleepFor(i) == [num |-> Pow(BackoffNum, i), den |-> Pow(BackoffDen, i)]

\* mutant of ApiKey: with neither variable set an anonymous key is used
ApiKeyFallback(e) ==
    IF e["BALLDONTLIE_API_KEY"] # "" THEN e["BALLDONTLIE_API_KEY"]
    ELSE IF e["BALDONTLIE_API_KEY"] # "" THEN e["BALDONTLIE_API_KEY"]
    ELSE "anonymous"

\* api_key = os.getenv(A) or os.getenv(B): the first non-empty value
ApiKey(e) ==
    IF e["BALLDONTLIE_API_KEY"] # "" THEN e["BALLDONTLIE_API_KEY"]
    ELSE e["BALDONTLIE_API_KEY"]

\* payload.get("data", [])
DataOf(payload) == IF payload.hasData THEN payload.data ELSE <<>>

\* mutant of NextCursorOf: the loop tests "if not next_cursor", so cursor 0
\* reads as no cursor
NextCursorFalsy(payload) ==
    IF payload.meta = "obj" /\ payload.next_cursor # 0
    THEN payload.next_cursor ELSE None

\* meta = payload.get("meta", {}) or {};  meta.get("next_cursor")
NextCursorOf(payload) ==
    IF payload.meta = "obj" THEN payload.next_cursor ELSE None

\* mutant of Extend: rows = data, the accumulator is overwritten
ExtendOverwrite(acc, data) == data

\* mutant of Extend: a row whose id is already accumulated is skipped
RECURSIVE ExtendDedup(_, _)
ExtendDedup(acc, data) ==
    IF data = <<>> THEN acc
    ELSE IF \E k \in 1..Len(acc) : acc[k].id = data[1].id
         THEN ExtendDedup(acc, Tail(data))
         ELSE ExtendDedup(Append(acc, data[1]), Tail(data))

\* rows.extend(data)
Extend(acc, data) == acc \o data

\* dt_utc.dt.tz_convert(TZ).dt.strftime("%Y-%m-%d %H:%M"): Europe/Madrid is
\* one unit ahead of UTC in the model's time unit; NaT stays missing.  The
\* zero-padded format orders the strings as the local instants.
TzOffset == 1
ToLocal(dt) == IF dt = NaT THEN NaT ELSE dt + TzOffset

\* json_normalize, the tipoff_local column and the selection df[keep]
Normalize(row) ==
    [id |-> row.id, date |-> row.date, tipoff_local |-> ToLocal(row.datetime)]

NormalizeAll(rs) == [k \in 1..Len(rs) |-> Normalize(rs[k])]

\* sort key order of sort_values(["date", "tipoff_local"], ascending=True):
\* missing tipoffs go last among the rows of one date (na_position="last")
TipLess(x, y) == x # NaT /\ (y = NaT \/ x < y)

\* mutant of RowLess: sort_values("date"), the tipoff column is left out
RowLessByDate(a, b) == a.date < b.date

RowLess(a, b) ==
    \/ a.date < b.date
    \/ a.date = b.date /\ TipLess(a.tipoff_local, b.tipoff_local)

\* r goes before the first row that sorts strictly after it (stable)
InsertRow(s, r) ==
    LET later == {k \in 1..Len(s) : RowLess(r, s[k])}
        pos == IF later = {} THEN Len(s) + 1
               ELSE CHOOSE k \in later : \A m \in later : k <= m
    IN  SubSeq(s, 1, pos - 1) \o <<r>> \o SubSeq(s, pos, Len(s))

\* mutant of SortRows: the frame is left in upstream order
SortSkipped(s) == s

RECURSIVE SortRows(_)
SortRows(s) ==
    IF s = <<>> THEN <<>>
    ELSE InsertRow(SortRows(SubSeq(s, 1, Len(s) - 1)), s[Len(s)])

\* what fetch_games returns for the accumulated rows: pd.DataFrame() when
\* there are none, else the normalized, sorted frame
BuildFrame(rs) == IF rs = <<>> THEN <<>> ELSE SortRows(NormalizeAll(rs))

NoEntry == [has |-> FALSE, val |-> <<>>, at |-> 0]

\* mutant of CacheValid: the decorator is missing, nothing is ever reused
CacheOff(entry, now) == FALSE

\* mutant of CacheValid: an entry never expires
CacheForever(entry, now) == entry.has

\* st.cache_data(ttl=...): an entry answers a call while its age is below ttl
CacheValid(entry, now) == entry.has /\ now - entry.at < TTL

\* history logs and counters stop growing at MaxReq
Record(log, x) == IF Len(log) < MaxReq THEN Append(log, x) ELSE log
Count(n) == IF n < MaxReq THEN n + 1 ELSE n

(* ------------------------------- state -------------------------------- *)
VARIABLES
    clock,       \* wall clock, seconds
    env,         \* the process environment: EnvNames -> value
    cache,       \* st.cache_data store of fetch_games: Keys -> entry
    pc,          \* "idle": no script run in progress; "get": inside
                 \* safe_get, about to issue requests.get
    runs,        \* script runs started so far
    start_date,  \* arguments of the fetch_games call of this run
    end_date,
    cursor,      \* fetch_games: cursor
    rows,        \* fetch_games: rows
    i,           \* safe_get: loop index of the attempt about to be made
    last_err,    \* safe_get: last_err (None or a member of Errs)
    outcome,     \* how the last script run ended
    returned,    \* fetch_games returned a frame to the script in this run
    df,          \* that frame
    err,         \* the RuntimeError of safe_get: retry count and cause
    exec,        \* the current or last safe_get call: none/running/returned/raised
    \* observations (written, never read, by the program's steps)
    gets,        \* GETs issued by that safe_get call
    fails,       \* how many of them failed (429 or exception)
    sleeps,      \* the durations that call slept, in order
    lastSeen,    \* what its latest GET observed: SawOk, Saw429 or an error
    lastRaised,  \* the latest exception a GET raised in a call that has not
                 \* returned, or None
    requested,   \* params of each safe_get call of this run, in order
    npages,      \* pages received in this run
    served,      \* the rows of those pages, in the order served
    done,        \* per key: the frame and time of the latest computed return
    inWindow,    \* this run called fetch_games less than TTL after such a return
    prevDf,      \* and this is the frame that return gave
    expired,     \* this run called fetch_games TTL or more after such a return
    lastHit,     \* key of the latest call answered from the cache, if no
                 \* computed return for that key followed it; else <<>>
    nexts,       \* next_cursor named by each response of this run, in order
    lastNext     \* next_cursor named by the latest response of this run

vars ==
    <<clock, env, cache, pc, runs, start_date, end_date, cursor, rows, i,
      last_err, outcome, returned, df, err, exec, gets, fails, sleeps,
      lastSeen, lastRaised, requested, npages, served, done, inWindow, prevDf,
      expired, lastHit, nexts, lastNext>>

NoErr == [tries |-> 0, cause |-> None]

Init ==
    /\ clock = 0
    /\ env \in [EnvNames -> EnvValues]
    /\ cache = [k \in Keys |-> NoEntry]
    /\ pc = "idle"
    /\ runs = 0
    /\ start_date = 1
    /\ end_date = 1
    /\ cursor = StartCursor
    /\ rows = <<>>
    /\ i = 0
    /\ last_err = None
    /\ outcome = "none"
    /\ returned = FALSE
    /\ df = <<>>
    /\ err = NoErr
    /\ exec = "none"
    /\ gets = 0
    /\ fails = 0
    /\ sleeps = <<>>
    /\ lastSeen = None
    /\ lastRaised = None
    /\ requested = <<>>
    /\ npages = 0
    /\ served = <<>>
    /\ done = [k \in Keys |-> NoEntry]
    /\ inWindow = FALSE
    /\ prevDf = <<>>
    /\ expired = FALSE
    /\ lastHit = <<>>
    /\ nexts = <<>>
    /\ lastNext = None

Key == <<start_date, end_date, PerPage>>

\* mutant of Params: the page size shrinks by the rows already collected
ParamsDrift ==
    [start_date |-> start_date, end_date |-> end_date,
     per_page |-> PerPage - Len(rows), cursor |-> cursor]

\* params of the request about to be sent (fetch_games, the dict literal)
Params ==
    [start_date |-> start_date, end_date |-> end_date, per_page |-> PerPage,
     cursor |-> cursor]

\* mutant of RangeInvalid: the comparison is the wrong way round
RangeReversed(s, e) == s < e

\* if start > end: st.error(...); st.stop()
RangeInvalid(s, e) == s > e

\* mutant of Present: the script renders whatever fetch_games returned
PresentAlways(frame) == "rendered"

\* the script after fetch_games returned frame: df.empty stops with a warning
Present(frame) == IF frame = <<>> THEN "empty_warning" ELSE "rendered"

(* ------------------------------ actions ------------------------------- *)
\* One script run from the top down to its first GET: the range check, the
\* cache lookup of the decorated fetch_games, bdl_headers, the loop entry.
RunScript(s, e) ==
    /\ pc = "idle"
    /\ runs' = runs + 1
    /\ start_date' = s
    /\ end_date' = e
    /\ err' = NoErr
    /\ exec' = "none"
    /\ gets' = 0
    /\ fails' = 0
    /\ sleeps' = <<>>
    /\ lastSeen' = None
    /\ lastRaised' = None
    /\ requested' = <<>>
    /\ npages' = 0
    /\ served' = <<>>
    /\ cursor' = StartCursor
    /\ rows' = <<>>
    /\ i' = 0
    /\ last_err' = None
    /\ nexts' = <<>>
    /\ lastNext' = None
    /\ UNCHANGED <<clock, env, cache, done>>
    /\ LET key == <<s, e, PerPage>> IN
       /\ inWindow' = (s <= e /\ done[key].has /\ clock - done[key].at < TTL)
       /\ prevDf' = IF inWindow' THEN done[key].val ELSE <<>>
       /\ expired' = (s <= e /\ done[key].has /\ clock - done[key].at >= TTL)
       /\ IF RangeInvalid(s, e)
          THEN \* st.error("Start date must be <= End date."); st.stop()
               /\ outcome' = "range_error"
               /\ returned' = FALSE
               /\ df' = <<>>
               /\ pc' = "idle"
               /\ UNCHANGED lastHit
          ELSE IF CacheValid(cache[key], clock)
          THEN \* cache hit: the body of fetch_games does not run
               /\ returned' = TRUE
               /\ df' = cache[key].val
               /\ outcome' = Present(cache[key].val)
               /\ pc' = "idle"
               /\ lastHit' = key
          ELSE IF ApiKey(env) = ""
          THEN \* bdl_headers: st.error(...); st.stop()
               /\ outcome' = "no_key"
               /\ returned' = FALSE
               /\ df' = <<>>
               /\ pc' = "idle"
               /\ UNCHANGED lastHit
          ELSE \* cursor = 0; rows = []; while True: ... safe_get(...)
               /\ outcome' = "none"
               /\ returned' = FALSE
               /\ df' = <<>>
               /\ pc' = "get"
               /\ UNCHANGED lastHit

\* observations of the safe_get call this GET belongs to: a GET with i = 0
\* opens a new call
GetsSoFar == IF i = 0 THEN 0 ELSE gets
FailsSoFar == IF i = 0 THEN 0 ELSE fails
SleepsSoFar == IF i = 0 THEN <<>> ELSE sleeps
RaisedSoFar == IF i = 0 THEN None ELSE lastRaised
RequestedNow == IF i = 0 THEN Record(requested, Params) ELSE requested

\* bodies a 2xx response may carry: the upstream serves at most MaxRows rows
\* in one collection run; "data" may be missing, "meta" may be missing,
\* null, or an object whose next_cursor is a cursor or null
Payloads ==
    LET pagesLeft == SeqsUpTo(Games, MaxRows - Len(rows))
        body(h, d, m, c) ==
            [hasData |-> h, data |-> d, meta |-> m, next_cursor |-> c]
    IN  {body(TRUE, d, "obj", c) : d \in pagesLeft, c \in Cursors \cup {None}}
        \cup {body(TRUE, d, m, None) : d \in pagesLeft, m \in {"absent", "null"}}
        \cup {body(FALSE, <<>>, "obj", c) : c \in Cursors \cup {None}}
        \cup {body(FALSE, <<>>, m, None) : m \in {"absent", "null"}}

\* safe_get: the attempt after a failed attempt n
NextAttempt(n) == n + 1
\* mutant of Exhausted: one attempt too many (range(retries + 1))
ExhaustedLate(n) == n >= Retries

\* safe_get: for i in range(retries) is over after attempt n
Exhausted(n) == NextAttempt(n) >= Retries
\* mutant of ErrAfterException: only the first exception is kept
ErrKeepFirst(old, e) == IF old = None THEN e ELSE old

\* safe_get: last_err after an attempt that raised e / that answered 429
ErrAfterException(old, e) == e
ErrAfter429(old) == old

\* fetch_games after the loop: the frame is built, the decorator stores it
\* under the call's key, the script presents it
ReturnFrame ==
    /\ df' = BuildFrame(rows')
    /\ returned' = TRUE
    /\ cache' = [cache EXCEPT ![Key] = [has |-> TRUE, val |-> df', at |-> clock]]
    /\ done' = [done EXCEPT ![Key] = [has |-> TRUE, val |-> df', at |-> clock]]
    /\ outcome' = Present(df')
    /\ pc' = "idle"
    /\ lastHit' = IF lastHit = Key THEN <<>> ELSE lastHit

\* the next_cursor a response's metadata names, None when it names none
Announced(payload) ==
    IF payload.meta = "obj" THEN payload.next_cursor ELSE None

\* A GET answered 2xx with a decodable body: safe_get returns it, and
\* fetch_games extends rows, then ends or moves the cursor.
GetOk(payload) ==
    /\ pc = "get"
    /\ gets' = GetsSoFar + 1
    /\ fails' = FailsSoFar
    /\ sleeps' = SleepsSoFar
    /\ lastSeen' = SawOk
    /\ lastRaised' = None
    /\ requested' = RequestedNow
    /\ exec' = "returned"
    /\ npages' = Count(npages)
    /\ served' = served \o DataOf(payload)
    /\ rows' = Extend(rows, DataOf(payload))
    /\ nexts' = Record(nexts, Announced(payload))
    /\ lastNext' = Announced(payload)
    /\ UNCHANGED <<clock, env, runs, start_date, end_date, err, inWindow,
                   prevDf, expired>>
    /\ IF NextCursorOf(payload) = None
       THEN \* break
            /\ ReturnFrame
            /\ UNCHANGED <<cursor, i, last_err>>
       ELSE \* cursor = next_cursor; the next iteration calls safe_get afresh
            /\ cursor' = NextCursorOf(payload)
            /\ i' = 0
            /\ last_err' = None
            /\ UNCHANGED <<cache, done, outcome, returned, df, pc, lastHit>>

\* mutant of RaiseOut: the error is swallowed and the rows collected so far
\* are returned
ReturnPartial ==
    /\ exec' = "raised"
    /\ err' = [tries |-> Retries, cause |-> last_err']
    /\ df' = BuildFrame(rows)
    /\ returned' = TRUE
    /\ outcome' = Present(df')
    /\ pc' = "idle"
    /\ UNCHANGED <<i, cache, done>>

\* mutant of RaiseOut: the failed call is memoized as an empty frame
RaiseCached ==
    /\ exec' = "raised"
    /\ err' = [tries |-> Retries, cause |-> last_err']
    /\ outcome' = "terminal_error"
    /\ pc' = "idle"
    /\ cache' = [cache EXCEPT ![Key] = [has |-> TRUE, val |-> <<>>, at |-> clock]]
    /\ UNCHANGED <<i, done, returned, df>>

\* raise RuntimeError(f"Request failed after {retries} tries: {last_err}"):
\* nothing catches it, so fetch_games and the script run end with it
RaiseOut ==
    /\ exec' = "raised"
    /\ err' = [tries |-> Retries, cause |-> last_err']
    /\ outcome' = "terminal_error"
    /\ pc' = "idle"
    /\ UNCHANGED <<i, cache, done, returned, df>>

\* mutant of SleptAfter: the last allowed attempt is not slept on
SleptUnlessLast(log, n) ==
    IF n + 1 < Retries THEN Append(log, SleepFor(n)) ELSE log

\* time.sleep(backoff ** i) on both failure paths of attempt n
SleptAfter(log, n) == Append(log, SleepFor(n))

\* what follows a failed attempt once time.sleep has returned: the next
\* attempt, or the RuntimeError
AfterFailure ==
    /\ gets' = GetsSoFar + 1
    /\ fails' = FailsSoFar + 1
    /\ sleeps' = SleptAfter(SleepsSoFar, i)
    /\ requested' = RequestedNow
    /\ UNCHANGED <<clock, env, runs, start_date, end_date, cursor, rows,
                   npages, served, inWindow, prevDf, expired, lastHit, nexts,
                   lastNext>>
    /\ IF Exhausted(i)
       THEN RaiseOut
       ELSE /\ exec' = "running"
            /\ i' = NextAttempt(i)
            /\ UNCHANGED <<err, outcome, pc, cache, done, returned, df>>

\* mutant of Get429: a 429 is slept on but uses up no attempt
Get429Free ==
    /\ pc = "get"
    /\ lastSeen' = Saw429
    /\ lastRaised' = RaisedSoFar
    /\ gets' = GetsSoFar + 1
    /\ fails' = FailsSoFar + 1
    /\ sleeps' = Append(SleepsSoFar, SleepFor(i))
    /\ requested' = RequestedNow
    /\ exec' = "running"
    /\ UNCHANGED <<clock, env, cache, pc, runs, start_date, end_date, cursor, rows,
                   i, last_err, outcome, returned, df, err, npages, served,
                   done, inWindow, prevDf, expired, lastHit, nexts, lastNext>>

\* A GET answered 429: sleep, continue.
Get429 ==
    /\ pc = "get"
    /\ lastSeen' = Saw429
    /\ lastRaised' = RaisedSoFar
    /\ last_err' = ErrAfter429(last_err)
    /\ AfterFailure

\* A GET that raised, or whose raise_for_status / json raised e.
GetExc(e) ==
    /\ pc = "get"
    /\ lastSeen' = e
    /\ lastRaised' = e
    /\ last_err' = ErrAfterException(last_err, e)
    /\ AfterFailure

\* Time passes.
Tick ==
    /\ clock + TickStep <= MaxClock
    /\ clock' = clock + TickStep
    /\ UNCHANGED <<env, cache, pc, runs, start_date, end_date, cursor, rows,
                   i, last_err, outcome, returned, df, err, exec, gets, fails,
                   sleeps, lastSeen, lastRaised, requested, npages, served,
                   done, inWindow, prevDf, expired, lastHit, nexts, lastNext>>

Ok == \E payload \in Payloads : GetOk(payload)
Exc == \E e \in Errs : GetExc(e)

\* One script run against an upstream that may answer anything.
FirstRun == runs = 0 /\ \E s \in Dates, e \in Dates : RunScript(s, e)

Next ==
    \/ FirstRun
    \/ Ok
    \/ Get429
    \/ Exc

Spec == Init /\ [][Next]_vars

\* The script is the only thread: a run that can take a step takes one.
Step == Ok \/ Get429 \/ Exc
FairSpec == Spec /\ WF_vars(Step)

\* MaxRuns script runs in one process, with time passing, against an
\* upstream whose GETs fail in any way or answer the fetch with one page.
OnePage ==
    { [hasData |-> TRUE, data |-> d, meta |-> "obj", next_cursor |-> None] :
        d \in SeqsUpTo(Games, 1) }
Rerun == runs < MaxRuns /\ \E s \in Dates, e \in Dates : RunScript(s, e)
OkOnePage == \E payload \in OnePage : GetOk(payload)

CacheNext ==
    \/ Rerun
    \/ OkOnePage
    \/ Get429
    \/ Exc
    \/ Tick

CacheSpec == Init /\ [][CacheNext]_vars

\* One script run whose fetch is answered with a single page of up to
\* MaxSort fixtures: fetch_games' normalization and sort on richer rows.
FixturePages ==
    { [hasData |-> TRUE, data |-> d, meta |-> "obj", next_cursor |-> None] :
        d \in SeqsUpTo(Fixtures, MaxSort) }
OkFixtures == \E payload \in FixturePages : GetOk(payload)

SortNext ==
    \/ FirstRun
    \/ OkFixtures

SortSpec == Init /\ [][SortNext]_vars

(* ------------------------------- claims ------------------------------- *)
\* fetch_games returned a frame it computed in this run
Computed == returned /\ exec = "returned"

\* C1  Exhaustion.  A safe_get call never issues more than Retries GETs; it
\* raises only after exactly Retries GETs that all failed; while every GET
\* so far failed and fewer than Retries were issued the call is still
\* running; and a call that returned saw a GET succeed.
C1_Exhaustion ==
    /\ gets <= Retries
    /\ exec = "raised" => gets = Retries /\ fails = Retries
    /\ (exec # "none" /\ fails = gets /\ gets < Retries)
          => (exec = "running" /\ pc = "get")
    /\ exec = "returned" => fails < gets

C1_Witness == exec = "raised" /\ gets = Retries /\ fails = Retries

\* d is a times the backoff base
TimesBase(d, a) == d.num * a.den * BackoffDen = a.num * d.den * BackoffNum
Shorter(a, d) == a.num * d.den < d.num * a.den

\* C2  Retry then success.  A safe_get call that returned failed K < Retries
\* times, issued K + 1 GETs of which the last succeeded, handed that body's
\* rows to the collector, and slept K times: first 1 second, each later
\* sleep the backoff base times the one before, so strictly longer.
C2_RetryThenSuccess ==
    exec = "returned" =>
        /\ fails < Retries
        /\ gets = fails + 1
        /\ lastSeen = SawOk
        /\ rows = served
        /\ Len(sleeps) = fails
        /\ \A k \in 1..Len(sleeps) :
              IF k = 1 THEN sleeps[k].num = sleeps[k].den
              ELSE /\ TimesBase(sleeps[k], sleeps[k - 1])
                   /\ Shorter(sleeps[k - 1], sleeps[k])

C2_Witness == exec = "returned" /\ fails = Retries - 1 /\ Len(sleeps) = fails

\* C3  Pagination completeness.  When fetch_games returns after N pages it
\* has called safe_get N times (both counts stop at MaxReq), and rows holds
\* exactly the served rows in page order and in-page order, so its length
\* is the sum of the pages' row counts.
C3_PaginationComplete ==
    Computed =>
        /\ Len(requested) = npages
        /\ rows = served
        /\ Len(rows) = Len(served)

C3_Witness ==
    Computed /\ npages = 2 /\ Len(rows) = 2 /\ rows[1] # rows[2]

\* C4  Cursor progression, as claimed: no two safe_get calls of one run
\* carry the same cursor.
C4_CursorNeverRepeats ==
    \A a \in DOMAIN requested, b \in DOMAIN requested :
        a # b => requested[a].cursor # requested[b].cursor

\* C5  Cache idempotence.  A run that calls fetch_games less than TTL
\* seconds after a computed return for the same key gets an equal frame
\* and issues no request: no safe_get call, no GET.
C5_CacheIdempotent ==
    inWindow =>
        /\ pc = "idle"
        /\ returned
        /\ df = prevDf
        /\ requested = <<>>
        /\ gets = 0
        /\ exec = "none"

C5_Witness == inWindow /\ returned /\ df # <<>> /\ clock > done[Key].at

\* how often the game with this id occurs in a sequence of rows
Occurrences(seq, id) == Cardinality({k \in DOMAIN seq : seq[k].id = id})

\* C6  No duplicates, as claimed: no id occurs twice in a returned frame.
C6_NoDuplicates ==
    returned => \A a \in DOMAIN df, b \in DOMAIN df : a # b => df[a].id # df[b].id

\* C6 amended: a returned frame holds every served row exactly as often as
\* the upstream served it, and nothing else.
C6_RowsAsServed ==
    Computed =>
        /\ Len(df) = Len(served)
        /\ \A g \in Games : Occurrences(df, g.id) = Occurrences(served, g.id)

C6_Witness ==
    Computed /\ npages = 2 /\ Len(df) = 2 /\ df[1].id = df[2].id

\* C7  No partial result.  When safe_get raises its RuntimeError the script
\* run ends with that error: fetch_games returns no frame, whatever rows
\* it had accumulated.
C7_NoPartialResult ==
    exec = "raised" =>
        /\ outcome = "terminal_error"
        /\ ~returned
        /\ df = <<>>
        /\ pc = "idle"
        /\ err.tries = Retries

C7_Witness == exec = "raised" /\ rows # <<>> /\ npages > 0

\* C8  Terminal error content, as claimed: the RuntimeError names what the
\* last attempt observed, and the retry count.
C8_CarriesLastAttempt ==
    exec = "raised" => err.tries = Retries /\ err.cause = lastSeen

\* C8 amended: the RuntimeError names the latest exception an attempt
\* raised (None when every attempt was answered 429), and the retry count.
C8_CarriesLastException ==
    exec = "raised" => err.tries = Retries /\ err.cause = lastRaised

C8_Witness ==
    exec = "raised" /\ lastSeen = Saw429 /\ err.cause = ErrHttp

\* C9  Fetch termination, as claimed: a collection run that has begun ends.
C9_FetchTerminates == (pc = "get") ~> (pc = "idle")

InRange(d) == start_date <= d /\ d <= end_date

\* C10  Date range, as claimed: every record of a returned frame has its
\* date within [start_date, end_date].
C10_DatesWithinRange ==
    returned => \A k \in DOMAIN df : InRange(df[k].date)

\* C10 amended: a returned frame is ordered by date and every record's date
\* is the date of a served row, so all lie within [start_date, end_date]
\* when the dates of all served rows do.
C10_DatesAsServed ==
    Computed =>
        /\ \A k \in DOMAIN df : \E j \in DOMAIN served : served[j].date = df[k].date
        /\ \A k \in DOMAIN df, m \in DOMAIN df : k < m => df[k].date <= df[m].date
        /\ (\A j \in DOMAIN served : InRange(served[j].date))
              => \A k \in DOMAIN df : InRange(df[k].date)

C10_Witness ==
    /\ Computed
    /\ Len(df) = 2
    /\ served[1].date > served[2].date
    /\ df[1].date < df[2].date
    /\ \A k \in DOMAIN df : InRange(df[k].date)

\* how often a record occurs in a frame
Copies(frame, r) == Cardinality({k \in DOMAIN frame : frame[k] = r})

\* C11  Sort order.  A returned frame is a permutation of the normalized
\* served rows, ascending by date and, among records of one date that both
\* have a tipoff, ascending by tipoff_local; a record without a tipoff is
\* placed by its date.
C11_SortOrder ==
    Computed =>
        /\ Len(df) = Len(served)
        /\ \A j \in DOMAIN served :
              Copies(df, Normalize(served[j]))
                  = Copies(NormalizeAll(served), Normalize(served[j]))
        /\ \A k \in DOMAIN df, m \in DOMAIN df :
              k < m =>
                 /\ df[k].date <= df[m].date
                 /\ (/\ df[k].date = df[m].date
                     /\ df[k].tipoff_local # NaT
                     /\ df[m].tipoff_local # NaT)
                       => df[k].tipoff_local <= df[m].tipoff_local

C11_Witness ==
    /\ Computed
    /\ Len(df) = 3
    /\ served[1].date > served[2].date
    /\ served[2].date = served[3].date
    /\ served[2].datetime > served[3].datetime
    /\ served[3].datetime # NaT
    /\ df[1].tipoff_local < df[2].tipoff_local
    /\ df[2].date < df[3].date

\* C12  429 consumes the retry budget.  After a GET answered 429 the call
\* has slept once per GET, the latest sleep being the backoff base times
\* the one before (1 second after the first GET); the attempt index has
\* moved on to the number of GETs issued, which never exceeds Retries; and
\* a 429 on GET number Retries ends in the terminal error.
C12_RateLimitUsesBudget ==
    /\ gets <= Retries
    /\ lastSeen = Saw429 =>
          /\ exec \in {"running", "raised"}
          /\ fails = gets
          /\ Len(sleeps) = gets
          /\ IF gets = 1 THEN sleeps[1].num = sleeps[1].den
             ELSE TimesBase(sleeps[gets], sleeps[gets - 1])
          /\ gets < Retries => (exec = "running" /\ pc = "get" /\ i = gets)
          /\ gets = Retries =>
                (exec = "raised" /\ outcome = "terminal_error" /\ pc = "idle")

C12_Witness ==
    /\ exec = "raised"
    /\ lastSeen = Saw429
    /\ lastRaised = ErrTimeout
    /\ gets = Retries

\* C13  Cursor chaining and loop exit.  The first request of a collection
\* run carries cursor 0; each later request carries the next_cursor of the
\* response just before it; a request is outstanding for at most one page
\* beyond the responses received; and the loop has ended exactly when a
\* response named no next_cursor, whatever rows the pages carried.
C13_CursorChain ==
    /\ Len(nexts) = npages
    /\ Len(requested) - npages \in {0, 1}
    /\ Len(requested) > 0 => requested[1].cursor = StartCursor
    /\ \A k \in DOMAIN requested :
          k > 1 => (nexts[k - 1] # None /\ requested[k].cursor = nexts[k - 1])
    /\ \A k \in DOMAIN nexts :
          nexts[k] = None => (k = Len(nexts) /\ Computed /\ pc = "idle")
    /\ Computed => (npages > 0 /\ lastNext = None)
    /\ (pc = "get" /\ npages > 0) => (lastNext # None /\ cursor = lastNext)
    /\ (pc = "get" /\ npages = 0) => cursor = StartCursor

C13_Witness ==
    /\ Computed
    /\ served = <<>>
    /\ Len(requested) = 2
    /\ requested[2].cursor = 1
    /\ nexts = <<1, None>>

\* C14  Cache expiry.  An entry carries the time of the computation that
\* produced it, and a hit leaves it as it is; a run that calls fetch_games
\* TTL seconds or more after that computation is not served from the cache:
\* it sends a request, and a frame it returns comes from its own responses.
C14_CacheExpiry ==
    /\ \A k \in Keys : cache[k] = done[k]
    /\ \A k \in Keys : cache[k].has => cache[k].at <= clock
    /\ expired =>
          /\ ~inWindow
          /\ pc = "get" \/ Len(requested) > 0
          /\ returned => (exec = "returned" /\ df = BuildFrame(rows)
                            /\ cache[Key].val = df)

C14_Witness ==
    /\ expired
    /\ lastHit = Key
    /\ pc = "get"
    /\ Len(requested) > 0
    /\ clock - cache[Key].at = TTL

\* C15  Empty result.  When no page of a completed collection run carried
\* a row, over one page or several, fetch_games returns the empty frame
\* and raises nothing, and the script stops at the warning: nothing is
\* rendered unless the frame has rows.
C15_EmptyResult ==
    /\ (Computed /\ served = <<>>) =>
          /\ df = <<>>
          /\ err = NoErr
          /\ outcome = "empty_warning"
          /\ pc = "idle"
    /\ outcome = "rendered" => (returned /\ df # <<>>)

C15_Witness ==
    /\ Computed
    /\ served = <<>>
    /\ npages = 2
    /\ outcome = "empty_warning"

\* neither accepted environment variable holds a credential
NoCredential == \A n \in EnvNames : env[n] = ""

\* C16  Missing credential.  With neither environment variable set, every
\* script run stops with an error and without a frame: a run with an
\* ordered range stops at the missing-key error of bdl_headers, no GET is
\* ever sent and nothing is ever cached.
C16_MissingCredential ==
    NoCredential =>
        /\ pc = "idle"
        /\ gets = 0
        /\ requested = <<>>
        /\ exec = "none"
        /\ ~returned
        /\ \A k \in Keys : ~cache[k].has
        /\ (runs > 0 /\ start_date <= end_date) => outcome = "no_key"
        /\ (runs > 0 /\ start_date > end_date) => outcome = "range_error"

C16_Witness ==
    /\ NoCredential
    /\ runs > 1
    /\ clock > 0
    /\ start_date <= end_date
    /\ outcome = "no_key"

\* C17  Range validation.  A script run whose start date is after its end
\* date stops at the range error: fetch_games is not called, so no frame
\* is returned, no GET is sent, and no cache entry ever has such a key.
C17_RangeValidated ==
    /\ (runs > 0 /\ start_date > end_date) =>
          /\ outcome = "range_error"
          /\ pc = "idle"
          /\ ~returned
          /\ exec = "none"
          /\ gets = 0
          /\ requested = <<>>
    /\ \A k \in Keys : cache[k].has => k[1] <= k[2]
    /\ \A k \in DOMAIN requested :
          requested[k].start_date <= requested[k].end_date

C17_Witness ==
    /\ runs > 0
    /\ start_date > end_date
    /\ ApiKey(env) # ""
    /\ outcome = "range_error"

\* C18  A sleep after every failed attempt.  In a safe_get call the
\* sleeps are as many as the failed attempts, the k-th lasting the backoff
\* base to the power k - 1; a call that raised has made Retries attempts
\* and slept Retries times, the last sleep following the last attempt.
C18_SleepAfterEveryFailure ==
    /\ Len(sleeps) = fails
    /\ \A k \in DOMAIN sleeps : sleeps[k] = SleepFor(k - 1)
    /\ exec = "raised" =>
          /\ gets = Retries
          /\ fails = Retries
          /\ Len(sleeps) = Retries
          /\ sleeps[Retries] = SleepFor(Retries - 1)

C18_Witness ==
    /\ exec = "raised"
    /\ Len(sleeps) = Retries
    /\ lastSeen = ErrHttp
    /\ npages = 1

\* C19  A terminal error leaves the cache as it was.  The step in which
\* fetch_games ends with the RuntimeError changes no cache entry, of its
\* own key or of any other; and the next script run with the same dates,
\* however soon, enters the request loop again.
C19_ErrorLeavesCache ==
    [][ /\ (pc = "get" /\ outcome' = "terminal_error") =>
              (cache' = cache /\ ~CacheValid(cache'[Key], clock'))
        /\ (/\ pc = "idle"
            /\ outcome = "terminal_error"
            /\ runs' = runs + 1
            /\ start_date' = start_date
            /\ end_date' = end_date) => (pc' = "get" /\ ~inWindow')
      ]_vars

C19_Witness ==
    /\ outcome = "terminal_error"
    /\ runs > 1
    /\ ~cache[Key].has
    /\ \E k \in Keys : k # Key /\ cache[k].has /\ clock - cache[k].at < TTL

\* C20  Stable query parameters.  Every page request of a collection run
\* carries the start_date, end_date and per_page of the fetch_games call;
\* requests of one run differ in nothing but the cursor.
C20_ParamsStable ==
    /\ \A k \in DOMAIN requested :
          /\ requested[k].start_date = start_date
          /\ requested[k].end_date = end_date
          /\ requested[k].per_page = PerPage
    /\ \A a \in DOMAIN requested, b \in DOMAIN requested :
          [requested[a] EXCEPT !.cursor = StartCursor]
              = [requested[b] EXCEPT !.cursor = StartCursor]

C20_Witness ==
    /\ Len(requested) > 1
    /\ requested[1].cursor # requested[2].cursor
    /\ start_date < end_date
    /\ rows # <<>>
====
